---- MODULE Spec2Model ----
(***************************************************************************)
(* Model of crypto/ed25519/ecmath/scalar.go: the 256-bit little-endian     *)
(* Scalar type, its package-level values and its operations.               *)
(*                                                                         *)
(* A Scalar is a function 0..31 -> 0..255 (the Go array [32]byte).  TLC's  *)
(* integers are 32 bits wide, so every 64-, 256- and 512-bit quantity is   *)
(* kept as its bytes, and the arithmetic modulo the group order is done on *)
(* 12-bit limbs.                                                           *)
(***************************************************************************)
EXTENDS Integers, Sequences, FiniteSets, TLC

\* ------------------------------------------------------------------------
\* Package-level values (scalar.go, var block)

\* A Go array literal of [32]byte: the listed elements, then zeroes.
Scalar(s) == [i \in 0..31 |-> IF i < Len(s) THEN s[i + 1] ELSE 0]

Zero == Scalar(<<>>)

One == Scalar(<<1>>)

Cofactor == Scalar(<<8>>)

\* A NegOne literal whose first byte is 0xed, the first byte of L.
NegOneAsOrder ==
  Scalar(<<237, 211, 245,  92,  26,  99,  18,  88,
           214, 156, 247, 162, 222, 249, 222,  20,
             0,   0,   0,   0,   0,   0,   0,   0,
             0,   0,   0,   0,   0,   0,   0,  16>>)

NegOne ==
  Scalar(<<236, 211, 245,  92,  26,  99,  18,  88,
           214, 156, 247, 162, 222, 249, 222,  20,
             0,   0,   0,   0,   0,   0,   0,   0,
             0,   0,   0,   0,   0,   0,   0,  16>>)

L ==
  Scalar(<<237, 211, 245,  92,  26,  99,  18,  88,
           214, 156, 247, 162, 222, 249, 222,  20,
             0,   0,   0,   0,   0,   0,   0,   0,
             0,   0,   0,   0,   0,   0,   0,  16>>)

\* ------------------------------------------------------------------------
\* Natural numbers as little-endian sequences of 12-bit limbs (index 1 is
\* the least significant limb).  21 limbs are 252 bits, so the limbs from
\* the 22nd up are the part of a number above bit 252.

Max(x, y) == IF x >= y THEN x ELSE y
Min(x, y) == IF x <= y THEN x ELSE y

\* Byte i of the nb-byte array a, zero beyond its end.
ByteAt(a, nb, i) == IF i < nb THEN a[i] ELSE 0

\* The nb-byte little-endian array a as nl limbs: two limbs per three bytes.
Limbs(a, nb, nl) ==
  SubSeq([j \in 1..nl |->
            LET m == (j - 1) \div 2
            IN  IF (j - 1) % 2 = 0
                THEN ByteAt(a, nb, 3 * m) + (ByteAt(a, nb, 3 * m + 1) % 16) * 256
                ELSE ByteAt(a, nb, 3 * m + 1) \div 16 + ByteAt(a, nb, 3 * m + 2) * 16],
         1, nl)

\* The low 32 bytes of the number l (22 limbs or more), as a Go [32]byte.
Bytes32(l) ==
  LET bs == SubSeq([j \in 1..32 |->
                      LET m == (j - 1) \div 3
                      IN  CASE (j - 1) % 3 = 0 -> l[2 * m + 1] % 256
                            [] (j - 1) % 3 = 1 ->
                                 l[2 * m + 1] \div 256 + (l[2 * m + 2] % 16) * 16
                            [] OTHER -> l[2 * m + 2] \div 16],
                   1, 32)
  IN  IF Len(bs) # 32 THEN Scalar(<<>>) ELSE [i \in 0..31 |-> bs[i + 1]]

\* The limbs lo..hi of the number whose k-th column holds cols[k], given the
\* carry into column lo, and the carry out of column hi.  The range is
\* halved, the carry out of the low half entering the high half.
RECURSIVE Carry(_, _, _, _)
Carry(cols, lo, hi, carry) ==
  IF lo = hi
  THEN LET t == cols[lo] + carry IN <<<<t % 4096>>, t \div 4096>>
  ELSE LET mid == (lo + hi) \div 2
           low == Carry(cols, lo, mid, carry)
       IN  LET high == Carry(cols, mid + 1, hi, low[2])
           IN  <<low[1] \o high[1], high[2]>>

\* The sum of a[i] * b[k + 1 - i] for i in lo..hi: column k of a * b.
RECURSIVE ColSum(_, _, _, _, _)
ColSum(a, b, k, lo, hi) ==
  IF lo > hi THEN 0
  ELSE IF lo = hi THEN a[lo] * b[k + 1 - lo]
  ELSE LET mid == (lo + hi) \div 2
       IN  ColSum(a, b, k, lo, mid) + ColSum(a, b, k, mid + 1, hi)

\* a * b + c in na + nb limbs, for a of na limbs, b of nb limbs and c of nc.
MulAddNat(a, na, b, nb, c, nc) ==
  Carry([k \in 1..(na + nb) |->
           ColSum(a, b, k, Max(1, k + 1 - nb), Min(na, k))
           + (IF k <= nc THEN c[k] ELSE 0)],
        1, na + nb, 0)[1]

\* a + b + c in n limbs, each of n limbs.
Add3Nat(a, b, c, n) == Carry([k \in 1..n |-> a[k] + b[k] + c[k]], 1, n, 0)[1]

\* -1, 0, 1 as a < b, a = b, a > b on the limbs lo..hi: the high half
\* decides unless it is equal.
RECURSIVE Cmp(_, _, _, _)
Cmp(a, b, lo, hi) ==
  IF lo = hi
  THEN (IF a[lo] < b[lo] THEN -1 ELSE IF a[lo] > b[lo] THEN 1 ELSE 0)
  ELSE LET mid == (lo + hi) \div 2
           top == Cmp(a, b, mid + 1, hi)
       IN  IF top # 0 THEN top ELSE Cmp(a, b, lo, mid)

\* The limbs lo..hi of a - b, given the borrow into limb lo, and the borrow
\* out of limb hi.
RECURSIVE Borrow(_, _, _, _, _)
Borrow(a, b, lo, hi, borrow) ==
  IF lo = hi
  THEN LET t == a[lo] - b[lo] - borrow
       IN  IF t >= 0 THEN <<<<t>>, 0>> ELSE <<<<t + 4096>>, 1>>
  ELSE LET mid == (lo + hi) \div 2
           low == Borrow(a, b, lo, mid, borrow)
       IN  LET high == Borrow(a, b, mid + 1, hi, low[2])
           IN  <<low[1] \o high[1], high[2]>>

\* a - b in n limbs, for a >= b.
SubNat(a, b, n) == Borrow(a, b, 1, n, 0)[1]

\* x padded with zero limbs (or cut) to n limbs.
Pad(x, nx, n) == SubSeq([k \in 1..n |-> IF k <= nx THEN x[k] ELSE 0], 1, n)

\* The number written in decimal by the digits ds (most significant first),
\* in n limbs: acc holds the digits before the i-th.
RECURSIVE FromDecimal(_, _, _, _)
FromDecimal(ds, i, n, acc) ==
  IF i > Len(ds) THEN acc
  ELSE LET next == Carry([k \in 1..n |->
                            acc[k] * 10 + (IF k = 1 THEN ds[i] ELSE 0)],
                         1, n, 0)[1]
       IN  IF Len(next) = n THEN FromDecimal(ds, i + 1, n, next) ELSE <<>>

\* ------------------------------------------------------------------------
\* internal/edwards25519: the group order and arithmetic modulo it.

\* 27742317777372353535851937790883648493, in 11 limbs.
OrderLow ==
  FromDecimal(<<2,7,7,4,2,3,1,7,7,7,7,3,7,2,3,5,3,5,3,
                5,8,5,1,9,3,7,7,9,0,8,8,3,6,4,8,4,9,3>>,
              1, 11, [k \in 1..11 |-> 0])

\* The group order 2^252 + OrderLow, in 22 limbs.
GroupOrder == Pad(OrderLow, 11, 21) \o <<1>>

\* r - GroupOrder when r >= GroupOrder, else r (22 limbs).
CondSub(r) ==
  IF Cmp(r, GroupOrder, 1, 22) >= 0 THEN SubNat(r, GroupOrder, 22) ELSE r

\* The product of OrderLow and the limbs of x from the 22nd to the n-th.
Fold(x, n) ==
  MulAddNat(OrderLow, 11, SubSeq(x, 22, n), n - 21, <<>>, 0)

\* x mod GroupOrder in 22 limbs, for x of n limbs (33 <= n <= 44).  The
\* limbs above bit 252 are folded back three times, since
\* 2^252 = -OrderLow (mod GroupOrder):
\*   x = lo(x) - lo(t1) + lo(t2) - t3  (mod GroupOrder)
\* and twice the order is added before subtracting, so that no difference
\* is negative; the result, below four times the order, is brought under
\* the order by three conditional subtractions.  Each intermediate number
\* is computed before the next one uses it.
ModOrder(x, n) ==
  LET zero == [k \in 1..22 |-> 0]
      t1 == Fold(x, n)
  IN  IF Len(x) # n \/ Len(t1) # n - 10 THEN <<>>
      ELSE
  LET t2 == Fold(t1, n - 10)
  IN  IF Len(t2) # n - 20 THEN <<>>
      ELSE
  LET t3 == Fold(t2, n - 20)
      twice == Add3Nat(GroupOrder, GroupOrder, zero, 22)
  IN  IF Len(t3) # n - 30 THEN <<>>
      ELSE
  LET pos == Add3Nat(Pad(x, 21, 22), Pad(t2, 21, 22), twice, 22)
      neg == Add3Nat(Pad(t1, 21, 22), Pad(t3, n - 30, 22), zero, 22)
  IN  IF Len(pos) # 22 \/ Len(neg) # 22 THEN <<>>
      ELSE
  LET d0 == SubNat(pos, neg, 22)
  IN  IF Len(d0) # 22 THEN <<>>
      ELSE
  LET d1 == CondSub(d0)
  IN  IF Len(d1) # 22 THEN <<>>
      ELSE
  LET d2 == CondSub(d1)
  IN  IF Len(d2) # 22 THEN <<>>
      ELSE CondSub(d2)

\* ScMulAdd: s = a*b + c mod the group order.
ScMulAdd(a, b, c) ==
  LET la == Limbs(a, 32, 22)
      lb == Limbs(b, 32, 22)
      lc == Limbs(c, 32, 22)
  IN  IF Len(la) # 22 \/ Len(lb) # 22 \/ Len(lc) # 22 THEN Scalar(<<>>)
      ELSE LET r == ModOrder(MulAddNat(la, 22, lb, 22, lc, 22), 44)
           IN  IF Len(r) # 22 THEN Scalar(<<>>)
               ELSE Bytes32(r)

\* ScReduce: the 64-byte number x mod the group order.
ScReduce(x) ==
  LET lx == Limbs(x, 64, 43)
  IN  IF Len(lx) # 43 THEN Scalar(<<>>)
      ELSE LET r == ModOrder(lx, 43)
           IN  IF Len(r) # 22 THEN Scalar(<<>>)
               ELSE Bytes32(r)

\* ------------------------------------------------------------------------
\* Bytes and 64-bit words.

\* Bit k of the byte a.
Bit(a, k) == (a \div (2 ^ k)) % 2

\* The byte whose bit k is f[bit k of a + 1][bit k of b + 1].
RECURSIVE Bitwise(_, _, _, _)
Bitwise(f, a, b, k) ==
  IF k = 8 THEN 0
  ELSE f[Bit(a, k) + 1][Bit(b, k) + 1] * (2 ^ k) + Bitwise(f, a, b, k + 1)

\* Go's &, | and ^ on bytes.
And8(a, b) == Bitwise(<<<<0, 0>>, <<0, 1>>>>, a, b, 0)
Or8(a, b)  == Bitwise(<<<<0, 1>>, <<1, 1>>>>, a, b, 0)
Xor8(a, b) == Bitwise(<<<<0, 1>>, <<1, 0>>>>, a, b, 0)

\* A uint64 or int64 is its 64 bits, as the bytes 0..7 (byte 0 the lowest);
\* an int64 is in two's complement.

\* n >= 0 for an int64 n.
NonNeg64(n) == n[7] < 128

\* -n for an int64 n, as Go computes it: modulo 2^64.
Neg64(n) ==
  [i \in 0..7 |->
     IF \A j \in 0..(i - 1) : n[j] = 0 THEN (256 - n[i]) % 256
     ELSE 255 - n[i]]

\* binary.LittleEndian.PutUint64(s[:8], n): the bytes 0..7 of s become n.
PutUint64(s, n) == [i \in 0..31 |-> IF i < 8 THEN n[i] ELSE s[i]]

\* ------------------------------------------------------------------------
\* The storage: the package-level values and the scalars of the caller.
\* An operation names its receiver and operands by their locations (Go
\* pointers), so that a receiver may be the same storage as an operand.

Pkg == {"Zero", "One", "Cofactor", "NegOne", "L"}

Usr == {"s1", "s2"}

Loc == Pkg \cup Usr

\* The package-level values after package initialisation.
PkgInit ==
  [l \in Pkg |->
     CASE l = "Zero"     -> Zero
       [] l = "One"      -> One
       [] l = "Cofactor" -> Cofactor
       [] l = "NegOne"   -> NegOne
       [] l = "L"        -> L]

\* ------------------------------------------------------------------------
\* The operations, on a storage m.

\* A MulAdd that leaves the product in z before it reads the addend.
MulAddInPlace(m, z, a, b, c) ==
  LET m1 == [m EXCEPT ![z] = ScMulAdd(m[a], m[b], Zero)]
  IN  [m1 EXCEPT ![z] = ScMulAdd(m1[z], One, m1[c])]

\* z.MulAdd(a, b, c): ScMulAdd reads a, b and c and then writes z.
MulAdd(m, z, a, b, c) == [m EXCEPT ![z] = ScMulAdd(m[a], m[b], m[c])]

\* A SetUint64 without the assignment of Zero.
SetUint64NoClear(m, s, n) == [m EXCEPT ![s] = PutUint64(m[s], n)]

\* s.SetUint64(n): *s = Zero, then PutUint64(s[:8], n)
SetUint64(m, s, n) == [m EXCEPT ![s] = PutUint64(m["Zero"], n)]

\* A SetInt64 that converts n without taking its magnitude.
SetInt64NoBranch(m, s, n) == SetUint64(m, s, n)

\* s.SetInt64(n)
SetInt64(m, s, n) ==
  IF NonNeg64(n) THEN SetUint64(m, s, n) ELSE SetUint64(m, s, Neg64(n))

\* z.Add(x, y)
Add(m, z, x, y) == MulAdd(m, z, x, "One", y)

\* A Mul whose addend is One.
MulPlusOne(m, z, x, y) == MulAdd(m, z, x, y, "One")

\* z.Mul(x, y)
Mul(m, z, x, y) == MulAdd(m, z, x, y, "Zero")

\* A Sub with its operands exchanged.
SubSwapped(m, z, x, y) == MulAdd(m, z, x, "NegOne", y)

\* z.Sub(x, y)
Sub(m, z, x, y) == MulAdd(m, z, y, "NegOne", x)

\* z.Neg(x)
Neg(m, z, x) == MulAdd(m, z, x, "NegOne", "Zero")

\* subtle.ConstantTimeCompare(x, y) on two 32-byte slices: the OR of the
\* XORs of all the byte pairs is zero.
RECURSIVE OrOfXors(_, _, _, _)
OrOfXors(x, y, lo, hi) ==
  IF lo = hi THEN Xor8(x[lo], y[lo])
  ELSE LET mid == (lo + hi) \div 2
       IN  Or8(OrOfXors(x, y, lo, mid), OrOfXors(x, y, mid + 1, hi))

ConstantTimeCompare(x, y) == IF OrOfXors(x, y, 0, 31) = 0 THEN 1 ELSE 0

\* An Equal that compares the bytes 1..31 only.
EqualSkipFirst(m, z, x) == OrOfXors(m[x], m[z], 1, 31) = 0

\* z.Equal(x)
Equal(m, z, x) == ConstantTimeCompare(m[x], m[z]) = 1

\* A Prune that does not set bit 6 of byte 31.
PruneNoSet(m, z) ==
  [m EXCEPT ![z] =
     [i \in 0..31 |->
        CASE i = 0  -> And8(m[z][0], 248)
          [] i = 31 -> And8(m[z][31], 127)
          [] OTHER  -> m[z][i]]]

\* z.Prune()
Prune(m, z) ==
  [m EXCEPT ![z] =
     [i \in 0..31 |->
        CASE i = 0  -> And8(m[z][0], 248)
          [] i = 31 -> Or8(And8(m[z][31], 127), 64)
          [] OTHER  -> m[z][i]]]

\* A Reduce that keeps the low 32 bytes of x.
ReduceTruncating(m, z, x) == [m EXCEPT ![z] = [i \in 0..31 |-> x[i]]]

\* z.Reduce(x) for a 64-byte x
Reduce(m, z, x) == [m EXCEPT ![z] = ScReduce(x)]

\* hex.EncodeToString: two lowercase digits per byte, the high one first.
HexDigits ==
  <<"0", "1", "2", "3", "4", "5", "6", "7",
    "8", "9", "a", "b", "c", "d", "e", "f">>

EncodeToString(s) ==
  [k \in 1..64 |->
     LET b == s[(k - 1) \div 2]
     IN  IF k % 2 = 1 THEN HexDigits[(b \div 16) + 1] ELSE HexDigits[(b % 16) + 1]]

\* s.String()
String(m, s) == EncodeToString(m[s])

\* ------------------------------------------------------------------------
\* The inputs.

MaxSample == 3

MaxWord == 7

MaxWide == 2

\* Byte j of the i-th arbitrary byte string.
Pat(i, j) == (i * 101 + j * 37 + 13) % 256

\* What a scalar of the caller may hold: any 32 bytes.  0: the largest
\* value; 1, 2: the encodings of 5 and 7; 3: a value below 2^252; the rest
\* arbitrary (reduced or not).
ScalarSample(i) ==
  CASE i = 0 -> [j \in 0..31 |-> 255]
    [] i = 1 -> Scalar(<<5>>)
    [] i = 2 -> Scalar(<<7>>)
    [] i = 3 -> [j \in 0..31 |-> IF j = 31 THEN Pat(i, j) % 16 ELSE Pat(i, j)]
    [] OTHER -> [j \in 0..31 |-> Pat(i, j)]

\* 64-bit arguments: 0, 5, 7, 12, 2^63 (the int64 -2^63), 2^64 - 1 (the
\* int64 -1), 2^63 - 1, 2^64 - 5 (the int64 -5), and arbitrary ones.
Word(i) ==
  CASE i = 0 -> [j \in 0..7 |-> 0]
    [] i = 1 -> [j \in 0..7 |-> IF j = 0 THEN 5 ELSE 0]
    [] i = 2 -> [j \in 0..7 |-> IF j = 0 THEN 7 ELSE 0]
    [] i = 3 -> [j \in 0..7 |-> IF j = 0 THEN 12 ELSE 0]
    [] i = 4 -> [j \in 0..7 |-> IF j = 7 THEN 128 ELSE 0]
    [] i = 5 -> [j \in 0..7 |-> 255]
    [] i = 6 -> [j \in 0..7 |-> IF j = 7 THEN 127 ELSE 255]
    [] i = 7 -> [j \in 0..7 |-> IF j = 0 THEN 251 ELSE 255]
    [] OTHER -> [j \in 0..7 |-> Pat(i, j)]

\* 64-byte arguments of Reduce: 0: the largest; 1: the group order itself
\* (as the literal L); the rest arbitrary.
Wide(i) ==
  CASE i = 0 -> [j \in 0..63 |-> 255]
    [] i = 1 -> [j \in 0..63 |-> IF j < 32 THEN L[j] ELSE 0]
    [] OTHER -> [j \in 0..63 |-> Pat(i, j)]

\* ------------------------------------------------------------------------
\* The state: the storage, whether an operation has been applied, and the
\* operation applied (with the storage it was applied to and what it
\* returned).

VARIABLES mem, pc, call

vars == <<mem, pc, call>>

NoCall ==
  [op |-> "none", z |-> "-", a |-> "-", b |-> "-", c |-> "-",
   n |-> <<>>, w |-> <<>>, pre |-> <<>>, ret |-> FALSE, str |-> <<>>]

Init ==
  /\ \E f \in [Usr -> 0..MaxSample] :
       mem = [l \in Loc |-> IF l \in Pkg THEN PkgInit[l] ELSE ScalarSample(f[l])]
  /\ pc = "ready"
  /\ call = NoCall

\* The operation op, applied to the storage, leaves m.
Applied(m, op) ==
  /\ pc = "ready"
  /\ pc' = "done"
  /\ mem' = m
  /\ call' = [op EXCEPT !.pre = mem]

\* D is the set of locations a caller may pass as a receiver that is
\* written.
CallSetUint64(D) ==
  \E s \in D, i \in 0..MaxWord :
    Applied(SetUint64(mem, s, Word(i)),
            [NoCall EXCEPT !.op = "SetUint64", !.z = s, !.n = Word(i)])

CallSetInt64(D) ==
  \E s \in D, i \in 0..MaxWord :
    Applied(SetInt64(mem, s, Word(i)),
            [NoCall EXCEPT !.op = "SetInt64", !.z = s, !.n = Word(i)])

CallAdd(D) ==
  \E z \in D, x \in Loc, y \in Loc :
    Applied(Add(mem, z, x, y),
            [NoCall EXCEPT !.op = "Add", !.z = z, !.a = x, !.b = y])

CallMul(D) ==
  \E z \in D, x \in Loc, y \in Loc :
    Applied(Mul(mem, z, x, y),
            [NoCall EXCEPT !.op = "Mul", !.z = z, !.a = x, !.b = y])

CallSub(D) ==
  \E z \in D, x \in Loc, y \in Loc :
    Applied(Sub(mem, z, x, y),
            [NoCall EXCEPT !.op = "Sub", !.z = z, !.a = x, !.b = y])

CallNeg(D) ==
  \E z \in D, x \in Loc :
    Applied(Neg(mem, z, x),
            [NoCall EXCEPT !.op = "Neg", !.z = z, !.a = x])

CallMulAdd(D) ==
  \E z \in D, a \in Usr, b \in Usr, c \in Usr :
    Applied(MulAdd(mem, z, a, b, c),
            [NoCall EXCEPT !.op = "MulAdd", !.z = z, !.a = a, !.b = b, !.c = c])

CallReduce(D) ==
  \E z \in D, i \in 0..MaxWide :
    Applied(Reduce(mem, z, Wide(i)),
            [NoCall EXCEPT !.op = "Reduce", !.z = z, !.w = Wide(i)])

CallPrune(D) ==
  \E z \in D :
    Applied(Prune(mem, z), [NoCall EXCEPT !.op = "Prune", !.z = z])

CallEqual ==
  \E z \in Loc, x \in Loc :
    Applied(mem, [NoCall EXCEPT !.op = "Equal", !.z = z, !.a = x,
                                !.ret = Equal(mem, z, x)])

CallString ==
  \E s \in Loc :
    Applied(mem, [NoCall EXCEPT !.op = "String", !.z = s,
                                !.str = String(mem, s)])

\* The callers write only to their own scalars.
Next ==
  \/ CallSetUint64(Usr)
  \/ CallSetInt64(Usr)
  \/ CallAdd(Usr)
  \/ CallMul(Usr)
  \/ CallSub(Usr)
  \/ CallNeg(Usr)
  \/ CallMulAdd(Usr)
  \/ CallReduce(Usr)
  \/ CallPrune(Usr)
  \/ CallEqual
  \/ CallString

Spec == Init /\ [][Next]_vars

\* The package-level values are Go variables: a caller may pass any of
\* them as the receiver.
NextAny ==
  \/ CallSetUint64(Loc)
  \/ CallSetInt64(Loc)
  \/ CallAdd(Loc)
  \/ CallMul(Loc)
  \/ CallSub(Loc)
  \/ CallNeg(Loc)
  \/ CallMulAdd(Loc)
  \/ CallReduce(Loc)
  \/ CallPrune(Loc)
  \/ CallEqual
  \/ CallString

SpecAny == Init /\ [][NextAny]_vars

\* ------------------------------------------------------------------------
\* What the claims speak of.

\* -1, 0, 1 as a < b, a = b, a > b, for two byte arrays read as
\* little-endian numbers, on the bytes lo..hi: the high half decides
\* unless it is equal.
RECURSIVE CmpBytes(_, _, _, _)
CmpBytes(a, b, lo, hi) ==
  IF lo = hi
  THEN (IF a[lo] < b[lo] THEN -1 ELSE IF a[lo] > b[lo] THEN 1 ELSE 0)
  ELSE LET mid == (lo + hi) \div 2
           top == CmpBytes(a, b, mid + 1, hi)
       IN  IF top # 0 THEN top ELSE CmpBytes(a, b, lo, mid)

\* 2^252 + 27742317777372353535851937790883648493 as 32 bytes.
OrderBytes == Bytes32(GroupOrder)

\* The scalar a, as a number, is below
\* 2^252 + 27742317777372353535851937790883648493.
Canonical(a) == CmpBytes(a, OrderBytes, 0, 31) < 0

\* The storage with four more scalars, three of them holding copies of the
\* operands of the operation applied.
Copies ==
  [l \in Loc \cup {"tz", "ta", "tb", "tc"} |->
     CASE l \in Loc -> call.pre[l]
       [] l = "ta" /\ call.a \in Loc -> call.pre[call.a]
       [] l = "tb" /\ call.b \in Loc -> call.pre[call.b]
       [] l = "tc" /\ call.c \in Loc -> call.pre[call.c]
       [] OTHER -> Zero]

\* What the operation applied leaves in a receiver that shares storage
\* with none of its operands.
Unaliased ==
  CASE call.op = "Add"    -> Add(Copies, "tz", "ta", "tb")["tz"]
    [] call.op = "Mul"    -> Mul(Copies, "tz", "ta", "tb")["tz"]
    [] call.op = "Sub"    -> Sub(Copies, "tz", "ta", "tb")["tz"]
    [] call.op = "Neg"    -> Neg(Copies, "tz", "ta")["tz"]
    [] call.op = "MulAdd" -> MulAdd(Copies, "tz", "ta", "tb", "tc")["tz"]

\* (&Scalar{}).SetUint64(n)
FromUint64(n) == SetUint64(Copies, "tz", n)["tz"]

\* The carry out of a + b for two 64-bit words whose sum has its low 64
\* bits zero from byte i up (given the carry into byte i); -1 otherwise.
RECURSIVE ZeroSumCarry(_, _, _, _)
ZeroSumCarry(a, b, i, carry) ==
  IF i = 8 THEN carry
  ELSE IF (a[i] + b[i] + carry) % 256 # 0 THEN -1
  ELSE ZeroSumCarry(a, b, i + 1, (a[i] + b[i] + carry) \div 256)

\* C1: whatever the operands (reduced or not) and the 64-byte input, the
\* value Add, Sub, Mul, Neg, MulAdd and Reduce leave in the receiver is a
\* number v with 0 <= v < L.
C1_Canonical ==
  call.op \in {"Add", "Sub", "Mul", "Neg", "MulAdd", "Reduce"}
    => Canonical(mem[call.z])

\* MulAdd was applied to three operands holding 2^256 - 1.
C1_Witness ==
  /\ call.op = "MulAdd"
  /\ \A l \in {call.a, call.b, call.c} : call.pre[l] = ScalarSample(0)
  /\ ~Canonical(call.pre[call.a])
  /\ Canonical(mem[call.z])

\* C2: Sub(x, y) leaves the same 32 bytes as Add(x, Neg(y)).
C2_SubIsAddNeg ==
  call.op = "Sub"
    => mem[call.z] = Add(Neg(Copies, "tc", "tb"), "tz", "ta", "tc")["tz"]

\* Sub was applied to 5 and 7 and left L - 2.
C2_Witness ==
  /\ call.op = "Sub"
  /\ call.pre[call.a] = ScalarSample(1)
  /\ call.pre[call.b] = ScalarSample(2)
  /\ mem[call.z] = [L EXCEPT ![0] = 235]

\* C3 as stated: for every 32-byte x, Add(x, Zero) = x, Mul(x, One) = x and
\* Mul(x, Zero) = Zero.
C3_AsStated ==
  /\ call.op = "Add" /\ call.pre[call.b] = Zero
       => mem[call.z] = call.pre[call.a]
  /\ call.op = "Mul" /\ call.pre[call.b] = One
       => mem[call.z] = call.pre[call.a]
  /\ call.op = "Mul" /\ call.pre[call.b] = Zero
       => mem[call.z] = Zero

\* C3, amended: for every x below L, Add(x, Zero) = x and Mul(x, One) = x;
\* for every 32-byte x, Mul(x, Zero) = Zero.
C3_Identities ==
  /\ call.op = "Add" /\ call.pre[call.b] = Zero /\ Canonical(call.pre[call.a])
       => mem[call.z] = call.pre[call.a]
  /\ call.op = "Mul" /\ call.pre[call.b] = One /\ Canonical(call.pre[call.a])
       => mem[call.z] = call.pre[call.a]
  /\ call.op = "Mul" /\ call.pre[call.b] = Zero
       => mem[call.z] = Zero

\* Mul was applied to a reduced scalar that is neither 0 nor 1, and One.
C3_Witness ==
  /\ call.op = "Mul"
  /\ call.pre[call.a] = ScalarSample(3)
  /\ call.b = "One"
  /\ mem[call.z] = ScalarSample(3)

\* C4: the literal L encodes 2^252 + 27742317777372353535851937790883648493
\* and the literal NegOne encodes L - 1, so that Add(NegOne, One) = Zero;
\* and Add(fromUint64(5), fromUint64(7)) = fromUint64(12).
C4_Literals ==
  /\ Limbs(L, 32, 22) = GroupOrder
  /\ Add3Nat(Limbs(NegOne, 32, 22), Limbs(One, 32, 22), Limbs(Zero, 32, 22), 22)
       = Limbs(L, 32, 22)
  /\ call.op = "Add" /\ call.pre[call.a] = NegOne /\ call.pre[call.b] = One
       => mem[call.z] = Zero
  /\ call.op = "Add" /\ call.pre[call.a] = FromUint64(Word(1))
                     /\ call.pre[call.b] = FromUint64(Word(2))
       => mem[call.z] = FromUint64(Word(3))

\* Add was applied to the package-level NegOne and One.
C4_Witness ==
  /\ call.op = "Add"
  /\ call.a = "NegOne"
  /\ call.b = "One"
  /\ mem[call.z] = Zero

C6_Magnitude ==
  call.op = "SetInt64"
    => LET m == [i \in 0..7 |-> mem[call.z][i]]
       IN  /\ IF NonNeg64(call.n) THEN m = call.n
              ELSE ZeroSumCarry(m, call.n, 0, 0) = 1
           /\ mem[call.z] = SetUint64(call.pre, call.z, m)[call.z]

\* SetInt64 was applied to -2^63 and left 2^63.
C6_Witness ==
  /\ call.op = "SetInt64"
  /\ call.n = Word(4)
  /\ mem[call.z] = [i \in 0..31 |-> IF i = 7 THEN 128 ELSE 0]

\* C7: whatever the receiver held, SetUint64(n) leaves n in the bytes 0..7
\* and zero in the bytes 8..31, a value below L; SetUint64(0) leaves Zero.
C7_SetUint64 ==
  call.op = "SetUint64"
    => /\ \A i \in 0..7 : mem[call.z][i] = call.n[i]
       /\ \A i \in 8..31 : mem[call.z][i] = 0
       /\ Canonical(mem[call.z])
       /\ call.n = Word(0) => mem[call.z] = Zero

\* SetUint64(2^64 - 1) was applied to a receiver holding 2^256 - 1.
C7_Witness ==
  /\ call.op = "SetUint64"
  /\ call.pre[call.z] = ScalarSample(0)
  /\ call.n = Word(5)
  /\ mem[call.z][7] = 255
  /\ mem[call.z][8] = 0

\* C8: whatever operation is applied to whatever receiver and operands,
\* Zero, One, NegOne, Cofactor and L hold their initial bytes.
C8_PackageValuesUnchanged == \A l \in Pkg : mem[l] = PkgInit[l]

\* C9: Prune clears the bits 0..2 of byte 0, clears bit 7 and sets bit 6 of
\* byte 31 and leaves every other bit, so that the result is a multiple of
\* 8 of bit length 255; a second Prune changes nothing.
C9_Prune ==
  call.op = "Prune"
    => LET p == call.pre[call.z]
           q == mem[call.z]
       IN  /\ \A k \in 0..2 : Bit(q[0], k) = 0
           /\ \A k \in 3..7 : Bit(q[0], k) = Bit(p[0], k)
           /\ Bit(q[31], 7) = 0
           /\ Bit(q[31], 6) = 1
           /\ \A k \in 0..5 : Bit(q[31], k) = Bit(p[31], k)
           /\ \A i \in 1..30 : q[i] = p[i]
           /\ q[0] % 8 = 0
           /\ q[31] >= 64 /\ q[31] < 128
           /\ Prune(mem, call.z) = mem

\* Prune was applied to the encoding of 5, whose byte 31 is zero.
C9_Witness ==
  /\ call.op = "Prune"
  /\ call.pre[call.z] = ScalarSample(1)
  /\ mem[call.z][0] = 0
  /\ mem[call.z][31] = 64

\* C10: Equal returns true exactly when its two scalars agree in all 32
\* bytes (so Equal(x, x) is true), and changes neither.
C10_Equal ==
  call.op = "Equal"
    => /\ call.ret <=> (\A i \in 0..31 : call.pre[call.z][i] = call.pre[call.a][i])
       /\ call.a = call.z => call.ret
       /\ mem = call.pre

\* Equal was applied to NegOne and L, which differ in one bit of byte 0.
C10_Witness ==
  /\ call.op = "Equal"
  /\ call.z = "NegOne"
  /\ call.a = "L"
  /\ call.ret = FALSE

====
